---------------------------- MODULE Spec2Model ----------------------------
(***************************************************************************)
(* Family-tree layout, generation assignment, sub-graph filters and the    *)
(* branch collapse engine of the genealogy viewer.                         *)
(*                                                                         *)
(*   lib/tree-layout.ts      computeLayout, buildSubtree, assignPositions, *)
(*                           assignGenerations, filterAncestors,           *)
(*                           filterDescendants                             *)
(*   app/(main)/book/page.tsx  computeBranchSummary, getDescendantHandles, *)
(*                           hiddenHandles, toggleCollapse, collapseAll,   *)
(*                           expandAll, layout                             *)
(*                                                                         *)
(* Handles are naturals: 1..NB are the people born into the family, NB + j *)
(* is the married-in spouse of j, Ghost is a handle no person record       *)
(* carries, 0 is an undefined (falsy) handle.                              *)
(* Pixel coordinates are kept in units of 1/Scale pixel so that every      *)
(* halving the code performs on a double stays an exact integer.           *)
(***************************************************************************)
EXTENDS Integers, Sequences, FiniteSets, TLC

\* ------------------------------------------------------------------------
\* Generic helpers
\* ------------------------------------------------------------------------
Range(s) == { s[i] : i \in 1..Len(s) }

Max2(a, b) == IF a >= b THEN a ELSE b

Min2(a, b) == IF a <= b THEN a ELSE b

SetMax(S) == CHOOSE x \in S : \A y \in S : y <= x

SetMin(S) == CHOOSE x \in S : \A y \in S : x <= y

\* The sequence of the elements of a set of naturals, ascending.
RECURSIVE SortedSeq(_)
SortedSeq(S) ==
    IF S = {} THEN << >>
    ELSE LET m == SetMin(S) IN << m >> \o SortedSeq(S \ {m})

\* ------------------------------------------------------------------------
\* Entity model: TreeNode and TreeFamily records held in ordered collections
\* ------------------------------------------------------------------------
\* personMap.get(h) !== undefined
HasPerson(D, h) == \E i \in 1..Len(D.people) : D.people[i].handle = h

\* personMap.get(h) / people.find(p => p.handle === h)
PersonOf(D, h) ==
    D.people[CHOOSE i \in 1..Len(D.people) :
                /\ D.people[i].handle = h
                /\ \A j \in 1..(i-1) : D.people[j].handle # h]

\* familyMap.get(f) !== undefined
HasFamily(D, f) == \E i \in 1..Len(D.families) : D.families[i].handle = f

\* familyMap.get(f)
FamilyOf(D, f) ==
    D.families[CHOOSE i \in 1..Len(D.families) : D.families[i].handle = f]

Handles(D) == { D.people[i].handle : i \in 1..Len(D.people) }

\* ------------------------------------------------------------------------
\* assignGenerations (tree-layout.ts 591-620)
\* gens is the Map<string, number>: a function whose domain is the set of
\* handles that have an entry.
\* ------------------------------------------------------------------------
RECURSIVE SetGen(_, _, _, _)
RECURSIVE SetGenChildren(_, _, _, _, _)
RECURSIVE SetGenFamilies(_, _, _, _, _)

\* for (const ch of fam.children) setGen(ch, gen + 1)
SetGenChildren(D, children, i, gen, gens) ==
    IF i > Len(children) THEN gens
    ELSE SetGenChildren(D, children, i + 1, gen,
                        SetGen(D, children[i], gen, gens))

\* the partner of a unit put one generation below, like a child
SetGenFamiliesPartnerBelow(D, handle, i, gen, gens) ==
    LET fams == PersonOf(D, handle).families IN
    IF i > Len(fams) THEN gens
    ELSE IF ~HasFamily(D, fams[i]) THEN SetGenFamilies(D, handle, i + 1, gen, gens)
    ELSE LET fam == FamilyOf(D, fams[i])
             g1  == IF fam.fatherHandle # 0 /\ fam.fatherHandle # handle
                    THEN SetGen(D, fam.fatherHandle, gen + 1, gens) ELSE gens
             g2  == IF fam.motherHandle # 0 /\ fam.motherHandle # handle
                    THEN SetGen(D, fam.motherHandle, gen + 1, g1) ELSE g1
             g3  == SetGenChildren(D, fam.children, 1, gen + 1, g2)
         IN SetGenFamilies(D, handle, i + 1, gen, g3)

\* only the father of a unit brought to the generation of the mother, never
\* the mother to the father's
SetGenFamiliesFatherOnly(D, handle, i, gen, gens) ==
    LET fams == PersonOf(D, handle).families IN
    IF i > Len(fams) THEN gens
    ELSE IF ~HasFamily(D, fams[i]) THEN SetGenFamilies(D, handle, i + 1, gen, gens)
    ELSE LET fam == FamilyOf(D, fams[i])
             g1  == IF fam.fatherHandle # 0 /\ fam.fatherHandle # handle
                    THEN SetGen(D, fam.fatherHandle, gen, gens) ELSE gens
             g3  == SetGenChildren(D, fam.children, 1, gen + 1, g1)
         IN SetGenFamilies(D, handle, i + 1, gen, g3)

\* for (const famId of person.families) { ... }
SetGenFamilies(D, handle, i, gen, gens) ==
    LET fams == PersonOf(D, handle).families IN
    IF i > Len(fams) THEN gens
    ELSE IF ~HasFamily(D, fams[i]) THEN SetGenFamilies(D, handle, i + 1, gen, gens)
    ELSE LET fam == FamilyOf(D, fams[i])
             g1  == IF fam.fatherHandle # 0 /\ fam.fatherHandle # handle
                    THEN SetGen(D, fam.fatherHandle, gen, gens) ELSE gens
             g2  == IF fam.motherHandle # 0 /\ fam.motherHandle # handle
                    THEN SetGen(D, fam.motherHandle, gen, g1) ELSE g1
             g3  == SetGenChildren(D, fam.children, 1, gen + 1, g2)
         IN SetGenFamilies(D, handle, i + 1, gen, g3)

SetGen(D, handle, gen, gens) ==
    IF handle \in DOMAIN gens /\ gens[handle] <= gen THEN gens
    ELSE LET g1 == [x \in (DOMAIN gens) \cup {handle} |->
                        IF x = handle THEN gen ELSE gens[x]]
         IN IF ~HasPerson(D, handle) THEN g1
            ELSE SetGenFamilies(D, handle, 1, gen, g1)

EmptyGens == [x \in {} |-> 0]

\* first loop: roots (empty parentFamilies) that have no entry yet
RECURSIVE GenRootsLoop(_, _, _)
GenRootsLoop(D, i, gens) ==
    IF i > Len(D.people) THEN gens
    ELSE LET p == D.people[i] IN
         GenRootsLoop(D, i + 1,
            IF Len(p.parentFamilies) = 0 /\ p.handle \notin DOMAIN gens
            THEN SetGen(D, p.handle, 0, gens) ELSE gens)

\* second loop: everybody who still has no entry
RECURSIVE GenRestLoop(_, _, _)
GenRestLoop(D, i, gens) ==
    IF i > Len(D.people) THEN gens
    ELSE LET p == D.people[i] IN
         GenRestLoop(D, i + 1,
            IF p.handle \notin DOMAIN gens
            THEN SetGen(D, p.handle, 0, gens) ELSE gens)

AssignGenerations(D) == GenRestLoop(D, 1, GenRootsLoop(D, 1, EmptyGens))

\* ------------------------------------------------------------------------
\* filterAncestors (tree-layout.ts 624-650)
\* ------------------------------------------------------------------------
RECURSIVE WalkAnc(_, _, _)
RECURSIVE WalkAncFamilies(_, _, _, _)

\* the walk up the fathers only
WalkAncFamiliesFatherLine(D, h, i, result) ==
    LET pfs == PersonOf(D, h).parentFamilies IN
    IF i > Len(pfs) THEN result
    ELSE IF ~HasFamily(D, pfs[i]) THEN WalkAncFamilies(D, h, i + 1, result)
    ELSE LET fam == FamilyOf(D, pfs[i])
             r1  == IF fam.fatherHandle # 0
                    THEN WalkAnc(D, fam.fatherHandle, result) ELSE result
         IN WalkAncFamilies(D, h, i + 1, r1)

WalkAncFamilies(D, h, i, result) ==
    LET pfs == PersonOf(D, h).parentFamilies IN
    IF i > Len(pfs) THEN result
    ELSE IF ~HasFamily(D, pfs[i]) THEN WalkAncFamilies(D, h, i + 1, result)
    ELSE LET fam == FamilyOf(D, pfs[i])
             r1  == IF fam.fatherHandle # 0
                    THEN WalkAnc(D, fam.fatherHandle, result) ELSE result
             r2  == IF fam.motherHandle # 0
                    THEN WalkAnc(D, fam.motherHandle, r1) ELSE r1
         IN WalkAncFamilies(D, h, i + 1, r2)

WalkAnc(D, h, result) ==
    IF h \in result THEN result
    ELSE IF ~HasPerson(D, h) THEN result \cup {h}
    ELSE WalkAncFamilies(D, h, 1, result \cup {h})

\* a unit kept only when both its father and its mother were reached
AncFamilyKeptBothParents(f, result) ==
    /\ f.fatherHandle # 0 /\ f.fatherHandle \in result
    /\ f.motherHandle # 0 /\ f.motherHandle \in result

AncFamilyKept(f, result) ==
    \/ f.fatherHandle # 0 /\ f.fatherHandle \in result
    \/ f.motherHandle # 0 /\ f.motherHandle \in result

FilterAncestors(handle, D) ==
    LET result == WalkAnc(D, handle, {}) IN
    [ people   |-> SelectSeq(D.people, LAMBDA p : p.handle \in result),
      families |-> SelectSeq(D.families, LAMBDA f : AncFamilyKept(f, result)) ]

\* ------------------------------------------------------------------------
\* filterDescendants (tree-layout.ts 652-680)
\* st = [result, included]: the result set and the includedFamilies set
\* ------------------------------------------------------------------------
RECURSIVE WalkDesc(_, _, _)
RECURSIVE WalkDescFamilies(_, _, _, _)
RECURSIVE WalkDescChildren(_, _, _, _)

WalkDescChildren(D, children, i, st) ==
    IF i > Len(children) THEN st
    ELSE WalkDescChildren(D, children, i + 1, WalkDesc(D, children[i], st))

WalkDescFamilies(D, h, i, st) ==
    LET fams == PersonOf(D, h).families IN
    IF i > Len(fams) THEN st
    ELSE IF ~HasFamily(D, fams[i]) THEN WalkDescFamilies(D, h, i + 1, st)
    ELSE LET fam == FamilyOf(D, fams[i])
             s1  == [ result   |-> st.result
                                    \cup (IF fam.fatherHandle # 0 THEN {fam.fatherHandle} ELSE {})
                                    \cup (IF fam.motherHandle # 0 THEN {fam.motherHandle} ELSE {}),
                      included |-> st.included \cup {fam.handle} ]
         IN WalkDescFamilies(D, h, i + 1, WalkDescChildren(D, fam.children, 1, s1))

WalkDesc(D, h, st) ==
    IF h \in st.result THEN st
    ELSE LET s1 == [ result |-> st.result \cup {h}, included |-> st.included ] IN
         IF ~HasPerson(D, h) THEN s1
         ELSE WalkDescFamilies(D, h, 1, s1)

DescFamilyKept(f, st) == f.handle \in st.included

FilterDescendants(handle, D) ==
    LET st == WalkDesc(D, handle, [ result |-> {}, included |-> {} ]) IN
    [ people   |-> SelectSeq(D.people, LAMBDA p : p.handle \in st.result),
      families |-> SelectSeq(D.families, LAMBDA f : DescFamilyKept(f, st)) ]

\* ------------------------------------------------------------------------
\* getDescendantHandles (book/page.tsx 1014-1036): no visited set, the walk
\* follows person.families down to every child
\* ------------------------------------------------------------------------
RECURSIVE WalkHidden(_, _, _)
RECURSIVE WalkHiddenFamilies(_, _, _, _)
RECURSIVE WalkHiddenChildren(_, _, _, _)

WalkHiddenChildren(D, children, i, result) ==
    IF i > Len(children) THEN result
    ELSE WalkHiddenChildren(D, children, i + 1,
                            WalkHidden(D, children[i], result \cup {children[i]}))

WalkHiddenFamilies(D, h, i, result) ==
    LET fams == PersonOf(D, h).families IN
    IF i > Len(fams) THEN result
    ELSE IF ~HasFamily(D, fams[i]) THEN WalkHiddenFamilies(D, h, i + 1, result)
    ELSE LET fam == FamilyOf(D, fams[i])
             r1  == IF fam.motherHandle # 0 /\ fam.motherHandle # h
                    THEN result \cup {fam.motherHandle} ELSE result
             r2  == IF fam.fatherHandle # 0 /\ fam.fatherHandle # h
                    THEN r1 \cup {fam.fatherHandle} ELSE r1
         IN WalkHiddenFamilies(D, h, i + 1,
                               WalkHiddenChildren(D, fam.children, 1, r2))

WalkHidden(D, h, result) ==
    IF ~HasPerson(D, h) THEN result
    ELSE WalkHiddenFamilies(D, h, 1, result)

GetDescendantHandles(D, handle) == WalkHidden(D, handle, {})

\* ------------------------------------------------------------------------
\* hiddenHandles (book/page.tsx 1039-1070)
\* ------------------------------------------------------------------------
\* lines 1042-1045: the union of the direct closures of the collapsed roots
DirectHidden(D, collapsed) ==
    UNION { GetDescendantHandles(D, h) : h \in collapsed }

\* lines 1056-1062: p.parentFamilies.every(...)
AllParentsHidden(D, p, hidden) ==
    \A k \in 1..Len(p.parentFamilies) :
        LET pfId == p.parentFamilies[k] IN
        IF ~HasFamily(D, pfId) THEN TRUE
        ELSE LET pf == FamilyOf(D, pfId)
                 fatherHidden == IF pf.fatherHandle # 0
                                 THEN pf.fatherHandle \in hidden ELSE TRUE
                 motherHidden == IF pf.motherHandle # 0
                                 THEN pf.motherHandle \in hidden ELSE TRUE
             IN fatherHidden /\ motherHidden

\* lines 1052-1067: one scan over treeData.people, adding in place
RECURSIVE CascadeScan(_, _, _)
CascadeScan(D, i, st) ==
    IF i > Len(D.people) THEN st
    ELSE LET p == D.people[i] IN
         CascadeScan(D, i + 1,
            IF p.handle \in st.hidden THEN st
            ELSE IF Len(p.parentFamilies) = 0 THEN st
            ELSE IF AllParentsHidden(D, p, st.hidden)
                 THEN [ hidden |-> st.hidden \cup {p.handle}, changed |-> TRUE ]
                 ELSE st)

RECURSIVE CascadeLoop(_, _)

\* the cascade stopped after one scan of the people
CascadeLoopOneScan(D, hidden) ==
    CascadeScan(D, 1, [ hidden |-> hidden, changed |-> FALSE ]).hidden

\* lines 1049-1068: while (changed)
CascadeLoop(D, hidden) ==
    LET st == CascadeScan(D, 1, [ hidden |-> hidden, changed |-> FALSE ]) IN
    IF st.changed THEN CascadeLoop(D, st.hidden) ELSE st.hidden

HiddenHandles(D, collapsed) == CascadeLoop(D, DirectHidden(D, collapsed))

\* ------------------------------------------------------------------------
\* computeBranchSummary (book/page.tsx 742-794)
\* ------------------------------------------------------------------------
\* minGen = Infinity / maxGen = -Infinity before any person is walked
NoGen == 0 - 1

RECURSIVE SumWalk(_, _, _, _)
RECURSIVE SumWalkFamilies(_, _, _, _, _)
RECURSIVE SumWalkChildren(_, _, _, _, _)

SumWalkChildren(D, children, i, gen, st) ==
    IF i > Len(children) THEN st
    ELSE SumWalkChildren(D, children, i + 1, gen, SumWalk(D, children[i], gen, st))

SumWalkFamilies(D, h, i, gen, st) ==
    LET fams == PersonOf(D, h).families IN
    IF i > Len(fams) THEN st
    ELSE IF ~HasFamily(D, fams[i]) THEN SumWalkFamilies(D, h, i + 1, gen, st)
    ELSE SumWalkFamilies(D, h, i + 1, gen,
            SumWalkChildren(D, FamilyOf(D, fams[i]).children, 1, gen + 1, st))

\* function walk(h, gen)
SumWalk(D, h, gen, st) ==
    IF h \in st.visited THEN st
    ELSE IF ~HasPerson(D, h) THEN [ st EXCEPT !.visited = @ \cup {h} ]
    ELSE LET person == PersonOf(D, h)
             s1 == [ st EXCEPT
                       !.visited = @ \cup {h},
                       !.minGen  = IF @ = NoGen \/ gen < @ THEN gen ELSE @,
                       !.maxGen  = IF @ = NoGen \/ gen > @ THEN gen ELSE @,
                       !.livingCount   = IF person.isLiving THEN @ + 1 ELSE @,
                       !.deceasedCount = IF person.isLiving THEN @ ELSE @ + 1,
                       !.patrilinealCount = IF person.isPatrilineal THEN @ + 1 ELSE @ ]
         IN SumWalkFamilies(D, h, 1, gen, s1)

\* "Also count spouse": lines 776-783
SumSpouse(D, handle, sp, st) ==
    IF sp # 0 /\ sp # handle /\ sp \notin st.visited /\ HasPerson(D, sp)
    THEN [ st EXCEPT
             !.visited = @ \cup {sp},
             !.livingCount   = IF PersonOf(D, sp).isLiving THEN @ + 1 ELSE @,
             !.deceasedCount = IF PersonOf(D, sp).isLiving THEN @ ELSE @ + 1 ]
    ELSE st

\* lines 770-786: the families of the collapsed person itself
RECURSIVE SumRootFamilies(_, _, _, _)
SumRootFamilies(D, handle, i, st) ==
    LET fams == PersonOf(D, handle).families IN
    IF i > Len(fams) THEN st
    ELSE IF ~HasFamily(D, fams[i]) THEN SumRootFamilies(D, handle, i + 1, st)
    ELSE LET fam == FamilyOf(D, fams[i])
             s1  == SumSpouse(D, handle, fam.motherHandle, st)
             s2  == SumSpouse(D, handle, fam.fatherHandle, s1)
         IN SumRootFamilies(D, handle, i + 1,
                            SumWalkChildren(D, fam.children, 1, 1, s2))

ComputeBranchSummary(handle, D) ==
    LET st0 == [ visited |-> {}, minGen |-> NoGen, maxGen |-> NoGen,
                 livingCount |-> 0, deceasedCount |-> 0, patrilinealCount |-> 0 ]
        st  == IF HasPerson(D, handle) THEN SumRootFamilies(D, handle, 1, st0) ELSE st0
    IN [ parentHandle     |-> handle,
         totalDescendants |-> Cardinality(st.visited),
         generationRange  |-> << IF st.minGen = NoGen THEN 0 ELSE st.minGen,
                                 IF st.maxGen = NoGen THEN 0 ELSE st.maxGen >>,
         livingCount      |-> st.livingCount,
         deceasedCount    |-> st.deceasedCount,
         patrilinealCount |-> st.patrilinealCount ]

\* branchSummaries (book/page.tsx 1073-1080)
BranchSummaries(D, collapsed) ==
    [ h \in collapsed |-> ComputeBranchSummary(h, D) ]

\* ------------------------------------------------------------------------
\* toggleCollapse, expandAll, collapseAll (book/page.tsx 1083-1133)
\* ------------------------------------------------------------------------
\* lines 1100-1103: childPerson.families.some(cf && cf.children.length > 0)
ChildHasChildren(D, ch) ==
    \E k \in 1..Len(PersonOf(D, ch).families) :
        LET cfId == PersonOf(D, ch).families[k] IN
        HasFamily(D, cfId) /\ Len(FamilyOf(D, cfId).children) > 0

\* the partners of the expanded root collapsed along with the children
RevealCollapsedWithPartners(D, handle) ==
    IF ~HasPerson(D, handle) THEN {}
    ELSE LET fams == PersonOf(D, handle).families
             unit(k) == FamilyOf(D, fams[k])
         IN UNION { IF HasFamily(D, fams[k]) /\ Len(unit(k).children) > 0
                    THEN { ch \in Range(unit(k).children) :
                             HasPerson(D, ch) /\ ChildHasChildren(D, ch) }
                         \cup ({ unit(k).fatherHandle, unit(k).motherHandle } \ { 0, handle })
                    ELSE {}
                    : k \in 1..Len(fams) }

\* every direct child collapsed again on expanding, with or without children
RevealCollapsedAll(D, handle) ==
    IF ~HasPerson(D, handle) THEN {}
    ELSE LET fams == PersonOf(D, handle).families IN
         { ch \in UNION { IF HasFamily(D, fams[k])
                          THEN Range(FamilyOf(D, fams[k]).children) ELSE {}
                          : k \in 1..Len(fams) } :
             HasPerson(D, ch) }

\* lines 1091-1110: the direct children that are collapsed again on expanding
RevealCollapsed(D, handle) ==
    IF ~HasPerson(D, handle) THEN {}
    ELSE LET fams == PersonOf(D, handle).families IN
         { ch \in UNION { IF HasFamily(D, fams[k])
                          THEN Range(FamilyOf(D, fams[k]).children) ELSE {}
                          : k \in 1..Len(fams) } :
             HasPerson(D, ch) /\ ChildHasChildren(D, ch) }

\* the expanded root left in the collapsed set
ToggleCollapseSetKeepRoot(D, prev, handle) ==
    prev \cup {handle} \cup (IF handle \in prev THEN RevealCollapsed(D, handle) ELSE {})

\* lines 1085-1114: the updater of setCollapsedBranches
ToggleCollapseSet(D, prev, handle) ==
    IF handle \in prev
    THEN (prev \ {handle}) \cup RevealCollapsed(D, handle)
    ELSE prev \cup {handle}

CollapseAllSet(D) ==
    UNION { IF Len(D.families[i].children) > 0
            THEN (IF D.families[i].fatherHandle # 0 THEN {D.families[i].fatherHandle} ELSE {})
                 \cup (IF D.families[i].motherHandle # 0 THEN {D.families[i].motherHandle} ELSE {})
            ELSE {}
            : i \in 1..Len(D.families) }

\* hasChildren (book/page.tsx 1202-1207): the card shows the collapse toggle
HasChildren(D, handle) ==
    \E i \in 1..Len(D.families) :
        /\ D.families[i].fatherHandle = handle \/ D.families[i].motherHandle = handle
        /\ Len(D.families[i].children) > 0

\* ------------------------------------------------------------------------
\* Sizing (tree-layout.ts 66-71), in pixels
\* ------------------------------------------------------------------------
CARD_W == 180

CARD_H == 80

H_SPACE == 24

V_SPACE == 80

COUPLE_GAP == 8

\* Coordinates are integers in units of 1/Scale pixel.
Scale == 2 ^ 6

CW == CARD_W * Scale

CH == CARD_H * Scale

HS == H_SPACE * Scale

VS == V_SPACE * Scale

CG == COUPLE_GAP * Scale

\* x / 2 on a double; defined only when the result is exact in the unit used
Half(x) == CHOOSE y \in { x \div 2 } : 2 * y = x

\* ------------------------------------------------------------------------
\* Contours (tree-layout.ts 100-130)
\* ------------------------------------------------------------------------
RECURSIVE MinSepLoop(_, _, _, _, _)
MinSepLoop(leftContour, rightContour, d, maxDepth, minSep) ==
    IF d > maxDepth THEN minSep
    ELSE LET needed == leftContour.right[d] - rightContour.left[d] + HS IN
         MinSepLoop(leftContour, rightContour, d + 1, maxDepth, Max2(minSep, needed))

\* minSeparation that packs the cards edge to edge, without the H_SPACE gap
MinSeparationNoGap(leftContour, rightContour) ==
    LET maxDepth == Min2(Len(leftContour.right), Len(rightContour.left))
        gap(d)   == leftContour.right[d] - rightContour.left[d]
    IN SetMax({ gap(d) : d \in 1..maxDepth } \cup {0})

MinSeparation(leftContour, rightContour) ==
    LET maxDepth == Min2(Len(leftContour.right), Len(rightContour.left))
        minSep   == MinSepLoop(leftContour, rightContour, 1, maxDepth, 0)
    IN Max2(minSep, HS)

\* Math.min(ll, rl) where a missing level is Infinity
MergedLeft(leftContour, rightContour, offset, d) ==
    IF d > Len(leftContour.left) THEN rightContour.left[d] + offset
    ELSE IF d > Len(rightContour.left) THEN leftContour.left[d]
    ELSE Min2(leftContour.left[d], rightContour.left[d] + offset)

\* Math.max(lr, rr) where a missing level is -Infinity
MergedRight(leftContour, rightContour, offset, d) ==
    IF d > Len(leftContour.right) THEN rightContour.right[d] + offset
    ELSE IF d > Len(rightContour.right) THEN leftContour.right[d]
    ELSE Max2(leftContour.right[d], rightContour.right[d] + offset)

\* the child's contour merged where it stands, not moved by the offset
MergeContoursUnshifted(leftContour, rightContour, offset) ==
    LET maxDepth == Max2(Len(leftContour.left), Len(rightContour.left)) IN
    [ left  |-> [ d \in 1..maxDepth |-> MergedLeft(leftContour, rightContour, 0, d) ],
      right |-> [ d \in 1..maxDepth |-> MergedRight(leftContour, rightContour, 0, d) ] ]

MergeContours(leftContour, rightContour, offset) ==
    LET maxDepth == Max2(Len(leftContour.left), Len(rightContour.left)) IN
    [ left  |-> [ d \in 1..maxDepth |-> MergedLeft(leftContour, rightContour, offset, d) ],
      right |-> [ d \in 1..maxDepth |-> MergedRight(leftContour, rightContour, offset, d) ] ]

\* ------------------------------------------------------------------------
\* buildSubtree (tree-layout.ts 139-311)
\* A TreeNode reference is its handle, 0 when undefined.  An optional
\* Subtree is a sequence of length 0 (null / absent) or 1.
\* ------------------------------------------------------------------------
LeafContour == [ left |-> << 0 - Half(CW) >>, right |-> << Half(CW) >> ]

LeafItem(child) ==
    [ subtree |-> << >>, leaf |-> child, width |-> CW, anchorX |-> Half(CW),
      contour |-> LeafContour ]

\* lines 148-151
FatherNode(family, D) ==
    IF family.fatherHandle # 0 /\ HasPerson(D, family.fatherHandle)
    THEN family.fatherHandle ELSE 0

MotherNode(family, D) ==
    IF family.motherHandle # 0 /\ HasPerson(D, family.motherHandle)
    THEN family.motherHandle ELSE 0

IsPatri(D, h) == h # 0 /\ PersonOf(D, h).isPatrilineal

Patrilineal(family, D) ==
    LET father == FatherNode(family, D)
        mother == MotherNode(family, D)
    IN IF IsPatri(D, father) THEN father
       ELSE IF IsPatri(D, mother) THEN mother
       ELSE IF father # 0 THEN father ELSE mother

SpouseNode(family, D) ==
    IF Patrilineal(family, D) = FatherNode(family, D)
    THEN MotherNode(family, D) ELSE FatherNode(family, D)

\* lines 160-163: the first family, in collection order, not yet visited in
\* which the child is a parent; 0 when there is none
ChildFamilyIndex(D, childHandle, visited) ==
    LET cand == { i \in 1..Len(D.families) :
                     /\ D.families[i].handle \notin visited
                     /\ \/ D.families[i].fatherHandle = childHandle
                        \/ D.families[i].motherHandle = childHandle }
    IN IF cand = {} THEN 0 ELSE SetMin(cand)

\* lines 243-257: offsets of the children's anchors from the first child's
RECURSIVE PackChildren(_, _, _, _)
PackChildren(children, i, offsets, merged) ==
    IF i > Len(children) THEN [ offsets |-> offsets, merged |-> merged ]
    ELSE LET sep == MinSeparation(merged, children[i].contour) IN
         PackChildren(children, i + 1, Append(offsets, sep),
                      MergeContours(merged, children[i].contour, sep))

CoupleRight(hasCouple) == IF hasCouple THEN Half(CW) + CG + CW ELSE Half(CW)

\* lines 148-151, 189: the head of the Subtree record
SubtreeBase(family, D, children) ==
    [ family |-> family.handle,
      father |-> FatherNode(family, D), mother |-> MotherNode(family, D),
      patrilineal |-> Patrilineal(family, D), spouse |-> SpouseNode(family, D),
      children |-> children ]

\* lines 193-206: no children
SubtreeLeaf(base, halfCard, coupleWidth, coupleRight) ==
    base @@ [ width |-> coupleWidth, anchorX |-> halfCard,
              contour |-> [ left |-> << 0 - halfCard >>, right |-> << coupleRight >> ],
              hasOffsets |-> FALSE, childOffsets |-> << >>, blockLeft |-> 0 ]

\* lines 208-237: rule 1, a single child
SubtreeSingle(base, child, halfCard, coupleRight) ==
    LET childAnchor      == child.anchorX
        leftExtent       == Max2(halfCard, childAnchor)
        childRightExtent == child.width - childAnchor
        rightExtent      == Max2(coupleRight, childRightExtent)
    IN base @@
       [ width |-> leftExtent + rightExtent, anchorX |-> leftExtent,
         contour |->
           [ left  |-> << Min2(0 - halfCard, 0 - leftExtent) >> \o child.contour.left,
             right |-> << Max2(coupleRight, rightExtent) >> \o child.contour.right ],
         hasOffsets |-> FALSE, childOffsets |-> << >>, blockLeft |-> 0 ]

\* lines 259-310: rule 2, from the offsets and the merged contour of the
\* packed children
SubtreeMany(base, children, packed, halfCard, coupleRight) ==
    LET childOffsets == packed.offsets
        merged       == packed.merged
        firstAnchor  == childOffsets[1]
        lastAnchor   == childOffsets[Len(childOffsets)]
        midpointOfAnchors == Half(firstAnchor + lastAnchor)
        blockLeft  == SetMin({ childOffsets[i] - children[i].anchorX
                                 : i \in 1..Len(children) })
        blockRight == SetMax({ childOffsets[i] + (children[i].width - children[i].anchorX)
                                 : i \in 1..Len(children) })
        childrenTotalWidth == blockRight - blockLeft
        adjustedAnchorX    == midpointOfAnchors - blockLeft
        leftExtent    == Max2(halfCard, adjustedAnchorX)
        childrenRight == childrenTotalWidth - adjustedAnchorX
        rightExtent   == Max2(coupleRight, childrenRight)
    IN base @@
       [ width |-> leftExtent + rightExtent, anchorX |-> leftExtent,
         contour |->
           [ left  |-> << Min2(0 - halfCard, 0 - adjustedAnchorX) >>
                       \o [ d \in 1..Len(merged.left) |-> merged.left[d] - midpointOfAnchors ],
             right |-> << Max2(coupleRight, childrenRight) >>
                       \o [ d \in 1..Len(merged.left) |-> merged.right[d] - midpointOfAnchors ] ],
         hasOffsets |-> TRUE, childOffsets |-> childOffsets, blockLeft |-> blockLeft ]

\* lines 188-311: width, anchorX and contour from the built children
SubtreeSized(base, children, hasCouple) ==
    IF Len(children) = 0
    THEN SubtreeLeaf(base, Half(CW), IF hasCouple THEN 2 * CW + CG ELSE CW,
                     CoupleRight(hasCouple))
    ELSE IF Len(children) = 1
    THEN SubtreeSingle(base, children[1], Half(CW), CoupleRight(hasCouple))
    ELSE SubtreeMany(base, children,
                     PackChildren(children, 2, << 0 >>,
                                  [ left  |-> children[1].contour.left,
                                    right |-> children[1].contour.right ]),
                     Half(CW), CoupleRight(hasCouple))

SubtreeOf(family, D, children) ==
    SubtreeSized(SubtreeBase(family, D, children), children,
                 Patrilineal(family, D) # 0 /\ SpouseNode(family, D) # 0)

RECURSIVE BuildSubtree(_, _, _)
RECURSIVE BuildChildren(_, _, _, _)

\* lines 165-178: the child item of a child whose own family was built
\* (b = [sub, visited]), a leaf when buildSubtree returned null
ChildBuilt(st, childHandle, b) ==
    [ children |->
        Append(st.children,
               IF Len(b.sub) = 1
               THEN [ subtree |-> b.sub, leaf |-> 0,
                      width |-> b.sub[1].width,
                      anchorX |-> b.sub[1].anchorX,
                      contour |-> b.sub[1].contour ]
               ELSE LeafItem(childHandle)),
      visited |-> b.visited ]

\* lines 156-185: one child of the family; k is the index of childFamily
ChildItemAdded(family, D, st, childHandle, k) ==
    IF k = 0
    THEN [ st EXCEPT !.children = Append(@, LeafItem(childHandle)) ]
    ELSE ChildBuilt(st, childHandle, BuildSubtree(D.families[k], D, st.visited))

\* lines 155-186: the loop over family.children; st = [children, visited]
BuildChildren(family, D, i, st) ==
    IF i > Len(family.children) THEN st
    ELSE IF ~HasPerson(D, family.children[i]) THEN BuildChildren(family, D, i + 1, st)
    ELSE BuildChildren(family, D, i + 1,
            ChildItemAdded(family, D, st, family.children[i],
                           ChildFamilyIndex(D, family.children[i], st.visited)))

\* lines 188-310: the Subtree of the family from its built children
Built(family, D, st) ==
    [ sub |-> << SubtreeOf(family, D, st.children) >>, visited |-> st.visited ]

\* returns [sub, visited]: the Subtree | null and the visited set afterwards
BuildSubtree(family, D, visited) ==
    IF family.handle \in visited THEN [ sub |-> << >>, visited |-> visited ]
    ELSE Built(family, D, BuildChildren(family, D, 1,
                  [ children |-> << >>, visited |-> visited \cup {family.handle} ]))

\* ------------------------------------------------------------------------
\* assignPositions (tree-layout.ts 315-405)
\* st = [nodes, placed, spans]: allNodes, the placed set, and an auxiliary
\* record of which slice of allNodes each child item of each family filled
\* (spans is history for the overlap properties; the code does not keep it).
\* ------------------------------------------------------------------------
PNode(h, x, y, generation) == [ handle |-> h, x |-> x, y |-> y, generation |-> generation ]

RowY(generation) == generation * (CH + VS)

\* allNodes.push(...); placed.add(...)
Place(st, h, x, generation) ==
    [ st EXCEPT !.nodes  = Append(@, PNode(h, x, RowY(generation), generation)),
                !.placed = @ \cup {h} ]

RECURSIVE AssignPositions(_, _, _, _)
RECURSIVE AssignChildren(_, _, _, _, _)

\* a child item pushed without looking at the placed set
AssignItemUnguarded(item, childStartX, generation, st) ==
    IF Len(item.subtree) = 1
    THEN AssignPositions(item.subtree[1], childStartX, generation + 1, st)
    ELSE IF item.leaf # 0
         THEN Place(st, item.leaf, childStartX, generation + 1)
         ELSE st

\* one child item: recurse into its subtree, or push the leaf if not placed
AssignItem(item, childStartX, generation, st) ==
    IF Len(item.subtree) = 1
    THEN AssignPositions(item.subtree[1], childStartX, generation + 1, st)
    ELSE IF item.leaf # 0 /\ item.leaf \notin st.placed
         THEN Place(st, item.leaf, childStartX, generation + 1)
         ELSE st

\* the child's start X: rule 1 (lines 343-344), rule 2 with the stored
\* offsets (lines 361-369)
ChildStartX(subtree, patriCenterX, i) ==
    LET item == subtree.children[i] IN
    IF Len(subtree.children) = 1 THEN patriCenterX - item.anchorX
    ELSE LET storedOffsets == subtree.childOffsets
             firstAnchor == storedOffsets[1]
             lastAnchor  == storedOffsets[Len(storedOffsets)]
             midpoint    == Half(firstAnchor + lastAnchor)
             childAnchorX == patriCenterX - midpoint + storedOffsets[i]
         IN childAnchorX - item.anchorX

\* the span of allNodes that child item i filled: st before, s1 after
SpanAdded(subtree, i, st, s1) ==
    [ s1 EXCEPT !.spans = @ \cup
        { [ family |-> subtree.family, child |-> i,
            lo |-> Len(st.nodes) + 1, hi |-> Len(s1.nodes) ] } ]

AssignChildren(subtree, patriCenterX, generation, i, st) ==
    IF i > Len(subtree.children) THEN st
    ELSE AssignChildren(subtree, patriCenterX, generation, i + 1,
            SpanAdded(subtree, i, st,
                      AssignItem(subtree.children[i],
                                 ChildStartX(subtree, patriCenterX, i), generation, st)))

\* lines 326-330
PatrilinealPlaced(subtree, patriCenterX, generation, st) ==
    IF subtree.patrilineal # 0 /\ subtree.patrilineal \notin st.placed
    THEN Place(st, subtree.patrilineal, patriCenterX - Half(CW), generation)
    ELSE st

\* lines 332-336
SpousePlaced(subtree, patriCenterX, generation, st) ==
    IF subtree.spouse # 0 /\ subtree.spouse \notin st.placed
    THEN Place(st, subtree.spouse, patriCenterX + Half(CW) + CG, generation)
    ELSE st

AssignPositions(subtree, startX, generation, st) ==
    AssignChildren(subtree, startX + subtree.anchorX, generation, 1,
        SpousePlaced(subtree, startX + subtree.anchorX, generation,
            PatrilinealPlaced(subtree, startX + subtree.anchorX, generation, st)))

\* ------------------------------------------------------------------------
\* computeLayout (tree-layout.ts 409-587)
\* ------------------------------------------------------------------------
ChildOfAnyFamily(D) ==
    UNION { Range(D.families[i].children) : i \in 1..Len(D.families) }

\* lines 420-424
IsRootFamily(f, D) ==
    \/ FatherNode(f, D) # 0 /\ FatherNode(f, D) \notin ChildOfAnyFamily(D)
    \/ MotherNode(f, D) # 0 /\ MotherNode(f, D) \notin ChildOfAnyFamily(D)

\* the cursor moved on by one card, whatever the width of the subtree
RootLaidOutCardWide(lay, b) ==
    IF Len(b.sub) = 0 THEN lay
    ELSE [ visited |-> b.visited,
           st      |-> AssignPositions(b.sub[1], lay.cursorX, 0, lay.st),
           cursorX |-> lay.cursorX + CW + HS,
           roots   |-> Append(lay.roots, b.sub[1]),
           orphans |-> lay.orphans ]

\* lines 432-435: one root family; b = [sub, visited] is what buildSubtree
\* returned
RootLaidOut(lay, b) ==
    IF Len(b.sub) = 0 THEN lay
    ELSE [ visited |-> b.visited,
           st      |-> AssignPositions(b.sub[1], lay.cursorX, 0, lay.st),
           cursorX |-> lay.cursorX + b.sub[1].width + HS,
           roots   |-> Append(lay.roots, b.sub[1]),
           orphans |-> lay.orphans ]

\* lines 431-436; lay = [visited, st, cursorX, roots, orphans]
RECURSIVE LayoutRoots(_, _, _)
LayoutRoots(D, i, lay) ==
    IF i > Len(D.families) THEN lay
    ELSE IF ~IsRootFamily(D.families[i], D) THEN LayoutRoots(D, i + 1, lay)
    ELSE LayoutRoots(D, i + 1,
            RootLaidOut(lay, BuildSubtree(D.families[i], D, lay.visited)))

\* the orphan loop with every orphan on the top row
RECURSIVE LayoutOrphansTopRow(_, _, _, _)
LayoutOrphansTopRow(D, gens, i, lay) ==
    IF i > Len(D.people) THEN lay
    ELSE IF D.people[i].handle \in lay.st.placed
    THEN LayoutOrphansTopRow(D, gens, i + 1, lay)
    ELSE LayoutOrphansTopRow(D, gens, i + 1,
            [ lay EXCEPT !.st = Place(@, D.people[i].handle, lay.cursorX, 0),
                         !.cursorX = @ + CW + HS,
                         !.orphans = Append(@, D.people[i].handle) ])

\* lines 439-451: people no root subtree placed; lay.orphans lists them in
\* the order they were placed (history for the properties)
RECURSIVE LayoutOrphans(_, _, _, _)
LayoutOrphans(D, gens, i, lay) ==
    IF i > Len(D.people) THEN lay
    ELSE LET p == D.people[i] IN
         IF p.handle \in lay.st.placed THEN LayoutOrphans(D, gens, i + 1, lay)
         ELSE LET gen == IF p.handle \in DOMAIN gens THEN gens[p.handle] ELSE 0 IN
              LayoutOrphans(D, gens, i + 1,
                [ lay EXCEPT !.st = Place(@, p.handle, lay.cursorX, gen),
                             !.cursorX = @ + CW + HS,
                             !.orphans = Append(@, p.handle) ])

\* the nodes left where assignPositions and the orphan loop put them
NormalizeNoShift(nodes) == nodes

\* lines 453-462
Normalize(nodes) ==
    IF Len(nodes) = 0 THEN nodes
    ELSE LET minX == SetMin({ nodes[i].x : i \in 1..Len(nodes) }) IN
         IF minX # 0 THEN [ i \in 1..Len(nodes) |-> [ nodes[i] EXCEPT !.x = @ - minX ] ]
         ELSE nodes

\* nodeMap.get(h): the index in allNodes of the node of h, 0 when undefined
NodeIndex(nodes, h) ==
    LET S == { i \in 1..Len(nodes) : nodes[i].handle = h } IN
    IF h = 0 \/ S = {} THEN 0 ELSE SetMax(S)

Conn(fromX, fromY, toX, toY, type) ==
    [ fromX |-> fromX, fromY |-> fromY, toX |-> toX, toY |-> toY, type |-> type ]

\* lines 477-491: the couple line and the couple record
CoupleLine(fam, nodes, fi, mi) ==
    IF fi = 0 \/ mi = 0 THEN [ connections |-> << >>, couples |-> << >> ]
    ELSE LET left  == IF nodes[fi].x < nodes[mi].x THEN nodes[fi] ELSE nodes[mi]
             right == IF nodes[fi].x < nodes[mi].x THEN nodes[mi] ELSE nodes[fi]
         IN [ connections |->
                << Conn(left.x + CW, left.y + Half(CH), right.x, right.y + Half(CH), "couple") >>,
              couples |->
                << [ familyHandle |-> fam.handle,
                     fatherPos |-> nodes[fi].handle, motherPos |-> nodes[mi].handle,
                     midX |-> Half(left.x + CW + right.x), y |-> left.y ] >> ]

\* lines 494-569: the bus lines from the parent to the placed children
ChildLines(fam, nodes, patri) ==
    LET idx == SelectSeq([ k \in 1..Len(fam.children) |-> NodeIndex(nodes, fam.children[k]) ],
                         LAMBDA n : n # 0)
        placedChildren == [ k \in 1..Len(idx) |-> nodes[idx[k]] ]
    IN
    IF Len(fam.children) = 0 \/ Len(placedChildren) = 0 THEN << >>
    ELSE LET parentCX      == nodes[patri].x + Half(CW)
             parentBottomY == nodes[patri].y + CH
             childTopY     == placedChildren[1].y
             busY          == parentBottomY + Half(childTopY - parentBottomY)
         IN
         IF Len(placedChildren) = 1
         THEN LET childCX == placedChildren[1].x + Half(CW) IN
              IF childCX - parentCX < Scale /\ parentCX - childCX < Scale
              THEN << Conn(parentCX, parentBottomY, parentCX, childTopY, "parent-child") >>
              ELSE << Conn(parentCX, parentBottomY, parentCX, busY, "parent-child"),
                      Conn(parentCX, busY, childCX, busY, "parent-child"),
                      Conn(childCX, busY, childCX, childTopY, "parent-child") >>
         ELSE LET childCenters == { placedChildren[k].x + Half(CW) : k \in 1..Len(placedChildren) }
                  busLeft  == Min2(parentCX, SetMin(childCenters))
                  busRight == Max2(parentCX, SetMax(childCenters))
              IN << Conn(parentCX, parentBottomY, parentCX, busY, "parent-child"),
                    Conn(busLeft, busY, busRight, busY, "parent-child") >>
                 \o [ k \in 1..Len(placedChildren) |->
                        Conn(placedChildren[k].x + Half(CW), busY,
                             placedChildren[k].x + Half(CW), childTopY, "parent-child") ]

\* lines 469-570; acc = [connections, couples]
RECURSIVE LayoutConnections(_, _, _, _)
LayoutConnections(D, nodes, i, acc) ==
    IF i > Len(D.families) THEN acc
    ELSE LET fam == D.families[i]
             fi  == NodeIndex(nodes, fam.fatherHandle)
             mi  == NodeIndex(nodes, fam.motherHandle)
         IN
         IF fi = 0 /\ mi = 0 THEN LayoutConnections(D, nodes, i + 1, acc)
         ELSE LET patri  == IF fi # 0 /\ PersonOf(D, fam.fatherHandle).isPatrilineal THEN fi
                            ELSE IF mi # 0 THEN mi ELSE fi
                  couple == CoupleLine(fam, nodes, fi, mi)
              IN LayoutConnections(D, nodes, i + 1,
                    [ connections |-> acc.connections \o couple.connections
                                         \o ChildLines(fam, nodes, patri),
                      couples     |-> acc.couples \o couple.couples ])

\* lines 454-457: the least x before the shift (0 when nothing was placed)
MinX(nodes) ==
    IF Len(nodes) = 0 THEN 0 ELSE SetMin({ nodes[i].x : i \in 1..Len(nodes) })

\* line 585: Math.max of no values is -Infinity, and -Infinity + 1 is
\* -Infinity again; MinusInfinity - 1 stands for the one, MinusInfinity for
\* the other.  No generation comes near it.
MinusInfinity == 0 - 2 ^ 20

\* line 585: Math.max(...Array.from(gens.values()))
MaxGeneration(gens) ==
    IF DOMAIN gens = {} THEN MinusInfinity - 1
    ELSE SetMax({ gens[h] : h \in DOMAIN gens })

\* lines 572-586.  The result carries, besides the LayoutResult fields, the
\* root subtrees, the spans of assignPositions, the least x before the shift
\* and the people the orphan loop placed (history for the properties)
LayoutResult(gens, lay, nodes, lines) ==
    [ nodes |-> nodes,
      minX |-> MinX(lay.st.nodes),
      orphans |-> lay.orphans,
      couples |-> lines.couples,
      connections |-> lines.connections,
      spans |-> lay.st.spans,
      roots |-> lay.roots,
      width  |-> (IF Len(nodes) = 0 THEN 0
                  ELSE SetMax({ nodes[i].x + CW : i \in 1..Len(nodes) })) + HS,
      height |-> (IF Len(nodes) = 0 THEN 0
                  ELSE SetMax({ nodes[i].y + CH : i \in 1..Len(nodes) })) + Half(VS),
      generations |-> MaxGeneration(gens) + 1 ]

\* lines 464-570
Connected(D, gens, lay, nodes) ==
    LayoutResult(gens, lay, nodes,
        LayoutConnections(D, nodes, 1, [ connections |-> << >>, couples |-> << >> ]))

\* lines 453-462
Normalized(D, gens, lay) == Connected(D, gens, lay, Normalize(lay.st.nodes))

\* lines 426-451
LaidOutWith(D, gens) ==
    Normalized(D, gens,
        LayoutOrphans(D, gens, 1,
            LayoutRoots(D, 1, [ visited |-> {}, cursorX |-> 0, roots |-> << >>,
                                orphans |-> << >>,
                                st |-> [ nodes |-> << >>, placed |-> {}, spans |-> {} ] ])))

ComputeLayout(D) == LaidOutWith(D, AssignGenerations(D))

\* ------------------------------------------------------------------------
\* Data sets (the treeData the page loads: fetchTreeData, supabase-data.ts)
\*
\* A data set is an ordered forest of NB bloodline people (handles 1..NB,
\* numbered level by level, so every ordered forest shape occurs once), a
\* set of bloodline people who have a married-in spouse (handle NB + j for
\* the spouse of j), and at most one irregularity (quirk) of the kind met in
\* hand-entered records: a handle listed twice as a child, a handle no
\* person carries, a marriage inside the bloodline, a second family of one
\* person, a family without recorded parents, a family record that is
\* missing from the collection.
\* ------------------------------------------------------------------------
NB == 5

BL == 1..NB

SpouseOf(j) == NB + j

SecondSpouse == 2 * NB + 1

Ghost == 2 * NB + 2

SecondFamily == NB + 1

AllHandles == 1..Ghost

\* parent vectors of the ordered forests: par[i] < i, nondecreasing
ParentVectors ==
    { par \in [ BL -> 0..(NB - 1) ] :
        /\ \A i \in BL : par[i] < i
        /\ \A i \in 1..(NB - 1) : par[i] <= par[i + 1] }

KidsIn(par, j) == SortedSeq({ i \in BL : par[i] = j })

\* the family records before the owner/partner are named father/mother
BaseFamilies(par, married) ==
    [ j \in { j \in BL : j \in married \/ \E i \in BL : par[i] = j } |->
        [ handle |-> j, owner |-> j,
          partner |-> IF j \in married THEN SpouseOf(j) ELSE 0,
          children |-> KidsIn(par, j) ] ]

NoQuirk == [ kind |-> "none", f |-> 0, h |-> 0 ]

Quirks(par, married) ==
    LET base == BaseFamilies(par, married) IN
    { NoQuirk }
    \cup { [ kind |-> "addChild", f |-> f, h |-> h ] :
             f \in DOMAIN base, h \in BL \cup {Ghost} }
    \cup { [ kind |-> "setMate", f |-> f, h |-> h ] :
             f \in BL \ married, h \in BL \cup {Ghost} }
    \cup { [ kind |-> "split", f |-> f, h |-> h ] :
             f \in { g \in DOMAIN base : Len(base[g].children) >= 2 },
             h \in { 0, SecondSpouse } }
    \cup { [ kind |-> "noParents", f |-> f, h |-> 0 ] :
             f \in { g \in DOMAIN base : Len(base[g].children) >= 1 } }
    \cup { [ kind |-> "dropFamily", f |-> f, h |-> 0 ] : f \in DOMAIN base }

\* the family records after the quirk
QuirkFamilies(par, married, q) ==
    LET base == BaseFamilies(par, married) IN
    CASE q.kind = "addChild" ->
            [ base EXCEPT ![q.f].children = Append(@, q.h) ]
      [] q.kind = "setMate" ->
            [ g \in (DOMAIN base) \cup {q.f} |->
                IF g = q.f
                THEN [ handle |-> g, owner |-> g, partner |-> q.h,
                       children |-> KidsIn(par, g) ]
                ELSE base[g] ]
      [] q.kind = "split" ->
            [ g \in (DOMAIN base) \cup {SecondFamily} |->
                IF g = q.f THEN [ base[g] EXCEPT !.children = << Head(@) >> ]
                ELSE IF g = SecondFamily
                THEN [ handle |-> g, owner |-> q.f, partner |-> q.h,
                       children |-> Tail(base[q.f].children) ]
                ELSE base[g] ]
      [] q.kind = "noParents" ->
            [ base EXCEPT ![q.f].owner = 0, ![q.f].partner = 0 ]
      [] OTHER -> base

TreeFamily(r, flip) ==
    [ handle |-> r.handle,
      fatherHandle |-> IF flip THEN r.partner ELSE r.owner,
      motherHandle |-> IF flip THEN r.owner ELSE r.partner,
      children |-> r.children ]

Reverse(s) == [ i \in 1..Len(s) |-> s[Len(s) + 1 - i] ]

\* the families collection, in handle order or reversed
FamilySeq(k) ==
    LET qf  == QuirkFamilies(k.par, k.married, k.quirk)
        ids == SortedSeq(DOMAIN qf)
        fwd == [ i \in 1..Len(ids) |-> TreeFamily(qf[ids[i]], k.flip) ]
    IN IF k.famRev THEN Reverse(fwd) ELSE fwd

ParentsOf(fam) == { fam.fatherHandle, fam.motherHandle } \ {0}

\* the person record of handle h: families and parentFamilies list the units
\* that name h as a parent / as a child, in collection order
PersonRec(fams, h, k) ==
    LET asParent == SelectSeq(fams, LAMBDA f : h \in ParentsOf(f))
        asChild  == SelectSeq(fams, LAMBDA f : h \in Range(f.children))
    IN [ handle |-> h,
         isPatrilineal |-> (k.patri = "born" /\ h \in BL),
         isLiving |-> (h % 2 = 1),
         families |-> [ i \in 1..Len(asParent) |-> asParent[i].handle ],
         parentFamilies |-> [ i \in 1..Len(asChild) |-> asChild[i].handle ] ]

PeopleHandles(k) ==
    BL \cup { SpouseOf(j) : j \in k.married }
       \cup (IF k.quirk.kind = "split" /\ k.quirk.h # 0 THEN {SecondSpouse} ELSE {})

DataSet(k) ==
    LET fams == FamilySeq(k)
        ids  == SortedSeq(PeopleHandles(k))
        fwd  == [ i \in 1..Len(ids) |-> PersonRec(fams, ids[i], k) ]
    IN [ people   |-> IF k.pplRev THEN Reverse(fwd) ELSE fwd,
         families |-> IF k.quirk.kind = "dropFamily"
                      THEN SelectSeq(fams, LAMBDA f : f.handle # k.quirk.f)
                      ELSE fams ]

\* the children of h over all families
KidsOf(fams, h) ==
    UNION { IF h \in ParentsOf(fams[i]) THEN Range(fams[i].children) ELSE {}
            : i \in 1..Len(fams) }

RECURSIVE DescWithin(_, _, _)
DescWithin(fams, S, n) ==
    IF n = 0 THEN S
    ELSE DescWithin(fams, S \cup UNION { KidsOf(fams, h) : h \in S }, n - 1)

\* the data model's invariant: nobody is their own descendant; no unit names
\* one handle twice
Acyclic(fams) ==
    \A h \in AllHandles : h \notin DescWithin(fams, KidsOf(fams, h), NB)

WellFormedFamily(fam) ==
    /\ fam.fatherHandle # 0 => fam.fatherHandle # fam.motherHandle
    /\ \A i, j \in 1..Len(fam.children) : i # j => fam.children[i] # fam.children[j]

WellFormedUnits(k) ==
    LET fams == FamilySeq(k) IN \A i \in 1..Len(fams) : WellFormedFamily(fams[i])

WellFormed(k) == WellFormedUnits(k) /\ Acyclic(FamilySeq(k))

\* who has a married-in spouse: nobody, one bloodline person, or everybody
MarriedSets == { {} } \cup { {j} : j \in BL } \cup { BL }

\* the data sets of one specification.  o.kinds names the quirk kinds; a data
\* set with a quirk has bloodline people flagged isPatrilineal, the families
\* in handle order and the bloodline owner of each unit as father or (switch
\* o.quirkFlips) as mother, and a data set without a quirk takes every
\* combination of the switches o.flips, o.patris, o.famRevs; o.marrieds names
\* the sets of married bloodline people; with o.cyclic the data sets in which
\* somebody is their own descendant are kept
Knobs(o) ==
    { k \in UNION { UNION {
                [ par : {par}, married : {m},
                  quirk : { q \in Quirks(par, m) : q.kind \in o.kinds } \ { NoQuirk },
                  flip : o.quirkFlips, patri : {"born"}, famRev : {FALSE},
                  pplRev : o.pplRevs ]
                \cup
                [ par : {par}, married : {m}, quirk : { NoQuirk },
                  flip : o.flips, patri : o.patris, famRev : o.famRevs,
                  pplRev : o.pplRevs ]
                : m \in o.marrieds }
            : par \in ParentVectors } :
        IF o.cyclic THEN WellFormedUnits(k) ELSE WellFormed(k) }

AllKinds == { "none", "addChild", "setMate", "split", "noParents", "dropFamily" }

\* ------------------------------------------------------------------------
\* State
\*   people, families    treeData (book/page.tsx 869)
\*   collapsedBranches   the collapsed branch roots (book/page.tsx 882)
\*   out                 the value the last applied function returned
\*   last                history of the page, for the two-step properties of
\*                       toggleCollapse: "collapsed" with the handle r and
\*                       the collapsed set before it (base) when the last
\*                       operation collapsed r, "toggledAgain" when r was
\*                       toggled once more right after, "other" otherwise
\* ------------------------------------------------------------------------
VARIABLES people, families, collapsedBranches, out, last

vars == << people, families, collapsedBranches, out, last >>

TreeData == [ people |-> people, families |-> families ]

NoOut == [ op |-> "none" ]

NoLast == [ op |-> "other", handle |-> 0, base |-> {} ]

Loaded(o) ==
    /\ \E k \in Knobs(o) :
          LET d == DataSet(k) IN people = d.people /\ families = d.families
    /\ collapsedBranches = {}
    /\ out = NoOut
    /\ last = NoLast

\* ------------------------------------------------------------------------
\* assignGenerations applied to the loaded data
\* ------------------------------------------------------------------------
GenKnobs ==
    [ kinds |-> AllKinds, marrieds |-> MarriedSets, flips |-> {FALSE},
      cyclic |-> FALSE, quirkFlips |-> {FALSE},
      patris |-> {"born"}, famRevs |-> {FALSE}, pplRevs |-> BOOLEAN ]

InitGen == Loaded(GenKnobs)

RunAssignGenerations ==
    /\ out = NoOut
    /\ out' = [ op |-> "gens", gens |-> AssignGenerations(TreeData) ]
    /\ UNCHANGED << people, families, collapsedBranches, last >>

NextGen == RunAssignGenerations

SpecGen == InitGen /\ [][NextGen]_vars

\* ------------------------------------------------------------------------
\* assignGenerations run call by call (tree-layout.ts 591-620).  While it
\* runs, out holds
\*   gens      the Map
\*   stack     the setGen calls in progress, innermost last; a frame is the
\*             call's handle and gen, the index f into person.families and
\*             the position pos in the body of the family loop: 0 before the
\*             father, 1 before the mother, 1 + c before the c-th child
\*   phase, i  the top-level loop ("roots", then "rest") and its index
\*   lowered   a call replaced an entry by a smaller one (history)
\*   late      the people the second loop gave an entry (history)
\* ------------------------------------------------------------------------
\* lines 595-600: the head of setGen(handle, gen); m = [gens, stack, lowered]
SetGenCall(D, m, handle, gen) ==
    IF handle \in DOMAIN m.gens /\ m.gens[handle] <= gen THEN m
    ELSE [ gens    |-> [ x \in (DOMAIN m.gens) \cup {handle} |->
                           IF x = handle THEN gen ELSE m.gens[x] ],
           stack   |-> IF HasPerson(D, handle)
                       THEN Append(m.stack, [ handle |-> handle, gen |-> gen,
                                              f |-> 1, pos |-> 0 ])
                       ELSE m.stack,
           lowered |-> m.lowered \/ handle \in DOMAIN m.gens ]

\* the stack with its innermost frame replaced
WithTop(m, frame) ==
    [ m EXCEPT !.stack = [ @ EXCEPT ![Len(@)] = frame ] ]

\* lines 601-607: the next step of the innermost call in progress
SetGenStep(D, m) ==
    LET top  == m.stack[Len(m.stack)]
        fams == PersonOf(D, top.handle).families
    IN
    IF top.f > Len(fams)
    THEN [ m EXCEPT !.stack = SubSeq(@, 1, Len(@) - 1) ]
    ELSE IF ~HasFamily(D, fams[top.f])
    THEN WithTop(m, [ top EXCEPT !.f = @ + 1 ])
    ELSE LET fam  == FamilyOf(D, fams[top.f])
             next == WithTop(m, [ top EXCEPT !.pos = @ + 1 ])
         IN
         IF top.pos = 0
         THEN IF fam.fatherHandle # 0 /\ fam.fatherHandle # top.handle
              THEN SetGenCall(D, next, fam.fatherHandle, top.gen) ELSE next
         ELSE IF top.pos = 1
         THEN IF fam.motherHandle # 0 /\ fam.motherHandle # top.handle
              THEN SetGenCall(D, next, fam.motherHandle, top.gen) ELSE next
         ELSE IF top.pos - 1 <= Len(fam.children)
         THEN SetGenCall(D, next, fam.children[top.pos - 1], top.gen + 1)
         ELSE WithTop(m, [ top EXCEPT !.f = @ + 1, !.pos = 0 ])

Machine(o) == [ gens |-> o.gens, stack |-> o.stack, lowered |-> o.lowered ]

\* the first loop alone
LoopCallRootsOnly(D, o) ==
    LET p == D.people[o.i] IN
    IF /\ p.handle \notin DOMAIN o.gens
       /\ o.phase = "roots" /\ Len(p.parentFamilies) = 0
    THEN SetGenCall(D, Machine(o), p.handle, 0) @@ [ called |-> TRUE ]
    ELSE Machine(o) @@ [ called |-> FALSE ]

\* lines 610-617: the person at index o.i of the top-level loop o.phase
LoopCall(D, o) ==
    LET p == D.people[o.i] IN
    IF /\ p.handle \notin DOMAIN o.gens
       /\ (o.phase = "roots" => Len(p.parentFamilies) = 0)
    THEN SetGenCall(D, Machine(o), p.handle, 0) @@ [ called |-> TRUE ]
    ELSE Machine(o) @@ [ called |-> FALSE ]

\* married: nobody or the eldest of the bloodline
StepMarried == { {}, {1} }

StepKnobs ==
    [ kinds |-> AllKinds, marrieds |-> StepMarried, flips |-> {FALSE},
      cyclic |-> TRUE, quirkFlips |-> {FALSE},
      patris |-> {"born"}, famRevs |-> {FALSE}, pplRevs |-> BOOLEAN ]

InitGenSteps == Loaded(StepKnobs)

\* line 592
StartAssignGenerations ==
    /\ out = NoOut
    /\ out' = [ op |-> "setGen", gens |-> EmptyGens, stack |-> << >>,
                phase |-> "roots", i |-> 1, lowered |-> FALSE, late |-> {} ]
    /\ UNCHANGED << people, families, collapsedBranches, last >>

\* a setGen call is in progress
StepSetGen ==
    /\ out.op = "setGen" /\ Len(out.stack) > 0
    /\ out' = LET m == SetGenStep(TreeData, Machine(out)) IN
              [ out EXCEPT !.gens = m.gens, !.stack = m.stack, !.lowered = m.lowered ]
    /\ UNCHANGED << people, families, collapsedBranches, last >>

\* lines 610-617: the top-level loops go on to the next person
StepLoop ==
    /\ out.op = "setGen" /\ Len(out.stack) = 0 /\ out.i <= Len(people)
    /\ out' = LET m == LoopCall(TreeData, out) IN
              [ out EXCEPT !.gens = m.gens, !.stack = m.stack, !.lowered = m.lowered,
                           !.i = @ + 1,
                           !.late = IF m.called /\ out.phase = "rest"
                                    THEN @ \cup { people[out.i].handle } ELSE @ ]
    /\ UNCHANGED << people, families, collapsedBranches, last >>

\* the first loop is through: the second begins
StepRest ==
    /\ out.op = "setGen" /\ Len(out.stack) = 0 /\ out.i > Len(people)
    /\ out.phase = "roots"
    /\ out' = [ out EXCEPT !.phase = "rest", !.i = 1 ]
    /\ UNCHANGED << people, families, collapsedBranches, last >>

\* line 619: return gens
ReturnGens ==
    /\ out.op = "setGen" /\ Len(out.stack) = 0 /\ out.i > Len(people)
    /\ out.phase = "rest"
    /\ out' = [ op |-> "gens", gens |-> out.gens,
                lowered |-> out.lowered, late |-> out.late ]
    /\ UNCHANGED << people, families, collapsedBranches, last >>

NextGenSteps ==
    \/ StartAssignGenerations
    \/ StepSetGen
    \/ StepLoop
    \/ StepRest
    \/ ReturnGens

\* the function runs to its end once called: nothing but its own steps is
\* scheduled
SpecGenSteps == InitGenSteps /\ [][NextGenSteps]_vars /\ WF_vars(NextGenSteps)

\* ------------------------------------------------------------------------
\* computeLayout applied to the loaded data
\* ------------------------------------------------------------------------
LayoutKnobs ==
    [ kinds |-> AllKinds, marrieds |-> MarriedSets, flips |-> BOOLEAN,
      cyclic |-> FALSE, quirkFlips |-> BOOLEAN,
      patris |-> {"born", "none"}, famRevs |-> BOOLEAN, pplRevs |-> {FALSE} ]

InitLayout == Loaded(LayoutKnobs)

RunComputeLayout ==
    /\ out = NoOut
    /\ out' = [ op |-> "layout", layout |-> ComputeLayout(TreeData) ]
    /\ UNCHANGED << people, families, collapsedBranches, last >>

NextLayout == RunComputeLayout

SpecLayout == InitLayout /\ [][NextLayout]_vars

\* ------------------------------------------------------------------------
\* filterAncestors / filterDescendants applied to the loaded data, and
\* applied once more to their own output
\* ------------------------------------------------------------------------
FilterKnobs ==
    [ kinds |-> AllKinds, marrieds |-> MarriedSets, flips |-> {FALSE},
      cyclic |-> FALSE, quirkFlips |-> {FALSE},
      patris |-> {"born"}, famRevs |-> {FALSE}, pplRevs |-> {FALSE} ]

InitFilter == Loaded(FilterKnobs)

RunFilterAncestors(h) ==
    /\ out = NoOut
    /\ out' = [ op |-> "ancestors", handle |-> h, again |-> FALSE,
                first |-> FilterAncestors(h, TreeData), second |-> << >> ]
    /\ UNCHANGED << people, families, collapsedBranches, last >>

RunFilterDescendants(h) ==
    /\ out = NoOut
    /\ out' = [ op |-> "descendants", handle |-> h, again |-> FALSE,
                first |-> FilterDescendants(h, TreeData), second |-> << >> ]
    /\ UNCHANGED << people, families, collapsedBranches, last >>

ReapplyAncestors ==
    /\ out.op = "ancestors" /\ ~out.again
    /\ out' = [ out EXCEPT !.again = TRUE,
                           !.second = FilterAncestors(out.handle, out.first) ]
    /\ UNCHANGED << people, families, collapsedBranches, last >>

ReapplyDescendants ==
    /\ out.op = "descendants" /\ ~out.again
    /\ out' = [ out EXCEPT !.again = TRUE,
                           !.second = FilterDescendants(out.handle, out.first) ]
    /\ UNCHANGED << people, families, collapsedBranches, last >>

NextFilter ==
    \/ \E h \in Handles(TreeData) \cup {Ghost} : RunFilterAncestors(h)
    \/ \E h \in Handles(TreeData) \cup {Ghost} : RunFilterDescendants(h)
    \/ ReapplyAncestors
    \/ ReapplyDescendants

SpecFilter == InitFilter /\ [][NextFilter]_vars

\* ------------------------------------------------------------------------
\* minSeparation and mergeContours applied to a pair of contours, as
\* buildSubtree applies them to the merged contour of the children packed so
\* far and the contour of the next child (tree-layout.ts 252-256)
\* ------------------------------------------------------------------------
\* contours of up to MaxDepth levels, the left and right edge of a level
\* up to MaxDepth half cards from the anchor
MaxDepth == 2

Contours ==
    LET edge  == { k * Half(CW) : k \in (0 - MaxDepth)..MaxDepth }
        level == { e \in edge \X edge : e[1] <= e[2] }
    IN UNION { { [ left  |-> [ d \in 1..n |-> ls[d][1] ],
                   right |-> [ d \in 1..n |-> ls[d][2] ] ] : ls \in [1..n -> level] }
               : n \in 1..MaxDepth }

InitPack ==
    /\ people = << >>
    /\ families = << >>
    /\ collapsedBranches = {}
    /\ last = NoLast
    /\ \E merged \in Contours, child \in Contours :
          out = [ op |-> "contours", merged |-> merged, child |-> child ]

\* lines 252-256: sep = minSeparation(merged, contour); merged = mergeContours(...)
RunPack ==
    /\ out.op = "contours"
    /\ out' = [ op |-> "packed", merged |-> out.merged, child |-> out.child,
                sep |-> MinSeparation(out.merged, out.child),
                result |-> MergeContours(out.merged, out.child,
                                         MinSeparation(out.merged, out.child)) ]
    /\ UNCHANGED << people, families, collapsedBranches, last >>

NextPack == RunPack

SpecPack == InitPack /\ [][NextPack]_vars

\* ------------------------------------------------------------------------
\* The page: collapsing and expanding branches in full view
\* ------------------------------------------------------------------------
\* married: nobody, the eldest or the second of the bloodline
PageMarried == { {}, {1}, {2} }

PageKnobs ==
    [ kinds |-> AllKinds, marrieds |-> PageMarried, flips |-> {FALSE},
      cyclic |-> FALSE, quirkFlips |-> {FALSE},
      patris |-> {"born"}, famRevs |-> {FALSE}, pplRevs |-> BOOLEAN ]

\* lines 891-948: on the initial load in full view the page collapses the
\* parents at generation AUTO_COLLAPSE_GEN (8) or deeper; a data set of NB
\* bloodline people has fewer generations, so nothing starts collapsed
Init == Loaded(PageKnobs)

\* the useMemo values of the current state
Hidden == HiddenHandles(TreeData, collapsedBranches)

Summaries == BranchSummaries(TreeData, collapsedBranches)

\* the people left as they are
VisibleDataAllPeople(D, hidden) ==
    [ people   |-> D.people,
      families |-> SelectSeq(D.families, LAMBDA f :
                       ~(  (f.fatherHandle # 0 => f.fatherHandle \in hidden)
                        /\ (f.motherHandle # 0 => f.motherHandle \in hidden))) ]

\* book/page.tsx 1185-1199: the data handed to computeLayout in full view
VisibleData(D, hidden) ==
    [ people   |-> SelectSeq(D.people, LAMBDA p : p.handle \notin hidden),
      families |-> SelectSeq(D.families, LAMBDA f :
                       LET fatherHidden == IF f.fatherHandle # 0
                                           THEN f.fatherHandle \in hidden ELSE TRUE
                           motherHidden == IF f.motherHandle # 0
                                           THEN f.motherHandle \in hidden ELSE TRUE
                       IN ~(fatherHidden /\ motherHidden)) ]

PageLayout == ComputeLayout(VisibleData(TreeData, Hidden))

\* book/page.tsx 1587-1616: a laid-out (not hidden) person's card offers the
\* toggle when hasChildren, and a collapsed root's summary card offers it
CanToggle(h) ==
    /\ h \in Handles(TreeData)
    /\ h \notin Hidden
    /\ HasChildren(TreeData, h) \/ h \in collapsedBranches

ToggleCollapse(h) ==
    /\ CanToggle(h)
    /\ collapsedBranches' = ToggleCollapseSet(TreeData, collapsedBranches, h)
    /\ last' = IF h \notin collapsedBranches
               THEN [ op |-> "collapsed", handle |-> h, base |-> collapsedBranches ]
               ELSE IF last.op = "collapsed" /\ last.handle = h
               THEN [ last EXCEPT !.op = "toggledAgain" ]
               ELSE NoLast
    /\ UNCHANGED << people, families, out >>

ExpandAll ==
    /\ collapsedBranches' = {}
    /\ last' = NoLast
    /\ UNCHANGED << people, families, out >>

CollapseAll ==
    /\ collapsedBranches' = CollapseAllSet(TreeData)
    /\ last' = NoLast
    /\ UNCHANGED << people, families, out >>

Next ==
    \/ \E h \in Handles(TreeData) : ToggleCollapse(h)
    \/ ExpandAll
    \/ CollapseAll

Spec == Init /\ [][Next]_vars

\* ------------------------------------------------------------------------
\* Progressive reveal: starting from any set of collapsed parents,
\* toggleCollapse is called on collapsed roots only, as long as there is one
\* ------------------------------------------------------------------------
InitReveal ==
    /\ \E k \in Knobs(PageKnobs) :
          LET d == DataSet(k) IN people = d.people /\ families = d.families
    /\ collapsedBranches \in SUBSET CollapseAllSet(TreeData)
    /\ out = NoOut
    /\ last = NoLast

\* book/page.tsx 1083-1116, the branch next.has(handle)
Expand(h) ==
    /\ h \in collapsedBranches
    /\ collapsedBranches' = ToggleCollapseSet(TreeData, collapsedBranches, h)
    /\ last' = [ op |-> "expanded", handle |-> h, base |-> collapsedBranches ]
    /\ UNCHANGED << people, families, out >>

NextReveal == \E h \in AllHandles : Expand(h)

SpecReveal == InitReveal /\ [][NextReveal]_vars /\ WF_vars(NextReveal)

\* ========================================================================
\* Properties
\* ========================================================================
LaidOut == out.op = "layout"

Nodes == out.layout.nodes

\* the node of handle h in the layout result
NodeOf(h) == Nodes[CHOOSE i \in 1..Len(Nodes) : Nodes[i].handle = h]

CenterX(n) == n.x + Half(CW)

IsPlaced(h) == \E i \in 1..Len(Nodes) : Nodes[i].handle = h

\* C1: the nodes of computeLayout carry every person's handle exactly once
\* and no handle that is not a person's, whatever the families reference.
C1_EveryPersonOnce ==
    LaidOut =>
        /\ \A h \in Handles(TreeData) :
              Cardinality({ i \in 1..Len(Nodes) : Nodes[i].handle = h }) = 1
        /\ \A i \in 1..Len(Nodes) : Nodes[i].handle \in Handles(TreeData)

\* a unit names a handle no person carries, one person is a child of two
\* units or a parent in two, and one person is in no unit at all
C1_Witness ==
    /\ LaidOut
    /\ \E i \in 1..Len(families) :
          \/ Ghost \in Range(families[i].children) \cup ParentsOf(families[i])
          \/ \E j \in 1..Len(people) :
                Len(people[j].parentFamilies) + Len(people[j].families) >= 2
    /\ \E j \in 1..Len(people) :
          Len(people[j].parentFamilies) + Len(people[j].families) = 0

\* the placed children of a unit, in the unit's children order
PlacedChildren(f) == SelectSeq(f.children, LAMBDA c : IsPlaced(c))

\* C2 (rule 1): a unit with exactly one placed child has the child's card
\* centre on the centre of the unit's bloodline parent.
C2_SingleChildBelowParent ==
    LaidOut =>
        \A i \in 1..Len(families) :
            LET f == families[i] IN
            (Patrilineal(f, TreeData) # 0 /\ Len(PlacedChildren(f)) = 1) =>
                CenterX(NodeOf(PlacedChildren(f)[1]))
                    = CenterX(NodeOf(Patrilineal(f, TreeData)))

\* C3 (rule 2): a unit with two or more placed children has its bloodline
\* parent's centre at the midpoint of the first and the last child's centre.
C3_ParentAtMidpoint ==
    LaidOut =>
        \A i \in 1..Len(families) :
            LET f == families[i]
                pc == PlacedChildren(f)
            IN (Patrilineal(f, TreeData) # 0 /\ Len(pc) >= 2) =>
                  2 * CenterX(NodeOf(Patrilineal(f, TreeData)))
                    = CenterX(NodeOf(pc[1])) + CenterX(NodeOf(pc[Len(pc)]))

\* the cards a child item of a unit put on row y
SpanCards(sp, y) == { Nodes[i] : i \in { n \in sp.lo..sp.hi : Nodes[n].y = y } }

\* C4: on every row two sibling subtrees both occupy, the right sibling's
\* leftmost card starts at least H_SPACE right of the left sibling's
\* rightmost card.
C4_SiblingsApart ==
    LaidOut =>
        \A a, b \in out.layout.spans :
            (a.family = b.family /\ a.child < b.child) =>
                \A y \in { Nodes[i].y : i \in a.lo..a.hi } :
                    \A m \in SpanCards(a, y), n \in SpanCards(b, y) :
                        n.x >= m.x + CW + HS

\* two sibling subtrees that share two rows
C4_Witness ==
    /\ LaidOut
    /\ \E a, b \in out.layout.spans :
          /\ a.family = b.family /\ a.child < b.child
          /\ Cardinality({ y \in { Nodes[i].y : i \in a.lo..a.hi } :
                             SpanCards(b, y) # {} }) >= 2

\* C5: filterAncestors and filterDescendants return only people of the input,
\* and applied once more with the same handle to their own output they
\* return the same people and the same family units.
C5_FiltersIdempotentAndClosed ==
    out.op \in { "ancestors", "descendants" } =>
        /\ Range(out.first.people) \subseteq Range(people)
        /\ Range(out.first.families) \subseteq Range(families)
        /\ out.again =>
              /\ Range(out.second.people) = Range(out.first.people)
              /\ Range(out.second.families) = Range(out.first.families)

\* the ancestors of a person with recorded parents, filtered twice: part of
\* the people and part of the units were kept
C5_Witness ==
    /\ out.op = "ancestors" /\ out.again
    /\ Len(out.first.people) >= 2 /\ Len(out.first.people) < Len(people)
    /\ Len(out.first.families) >= 1 /\ Len(out.first.families) < Len(families)

Gens == out.gens

\* the roots: the people whose parentFamilies is empty
Roots == { people[j].handle : j \in { n \in 1..Len(people) : Len(people[n].parentFamilies) = 0 } }

\* C7 as stated: every person with an empty parentFamilies has generation 0.
C7_EveryRootAtZero ==
    out.op = "gens" => \A r \in Roots : Gens[r] = 0

\* the units of the collection in which r is a parent together with somebody
\* else who has a generation
PartnersOf(r) ==
    UNION { IF r \in ParentsOf(families[i])
            THEN (ParentsOf(families[i]) \ {r}) \cap DOMAIN Gens ELSE {}
            : i \in 1..Len(families) }

\* C7, amended: every person has a generation, and a person with an empty
\* parentFamilies has generation 0 or the generation of a partner (the other
\* parent of a unit of theirs), which is how a married-in spouse of a
\* descendant sits on the descendant's row.
C7_RootAtZeroOrWithPartner ==
    out.op = "gens" =>
        /\ Handles(TreeData) \subseteq DOMAIN Gens
        /\ \A r \in Roots :
              \/ Gens[r] = 0
              \/ \E q \in PartnersOf(r) : Gens[q] = Gens[r]

\* a married-in spouse of a descendant: a root below generation 0
C7_Witness ==
    /\ out.op = "gens"
    /\ \E r \in Roots : Gens[r] >= 1 /\ \E q \in PartnersOf(r) : q \notin Roots

\* C8: every child of a unit is at least one generation below each parent of
\* the unit.
C8_ChildBelowParents ==
    out.op = "gens" =>
        \A i \in 1..Len(families) :
            \A c \in Range(families[i].children) \cap Handles(TreeData) :
                \A q \in ParentsOf(families[i]) \cap Handles(TreeData) :
                    Gens[c] >= Gens[q] + 1

\* the direct children of r that are people and have children of their own,
\* read off the family units
KidsWithKids(r) ==
    { c \in KidsOf(families, r) \cap Handles(TreeData) : KidsOf(families, c) # {} }

\* everybody below the people of S: children, grandchildren, ...
Below(S) == DescWithin(families, UNION { KidsOf(families, c) : c \in S }, NB)

ToggledTwice == last.op = "toggledAgain"

BranchMembers(h) == Below({h}) \cap Handles(TreeData)

\* C9: the summary of a collapsed root reports as generationRange the least
\* and the greatest generation, as assignGenerations numbers them, of the
\* hidden members of its branch.
C9_RangeIsAbsoluteGenerations ==
    LET gens == AssignGenerations(TreeData) IN
    \A h \in collapsedBranches :
        BranchMembers(h) # {} =>
            Summaries[h].generationRange
                = << SetMin({ gens[m] : m \in BranchMembers(h) }),
                     SetMax({ gens[m] : m \in BranchMembers(h) }) >>

\* the cascade rule for person record p and hidden set H: p has parent
\* families, and every one of them that is on record has no father or a
\* hidden one, and no mother or a hidden one
CascadeRule(p, H) ==
    /\ Len(p.parentFamilies) > 0
    /\ \A i \in 1..Len(families) :
          families[i].handle \in Range(p.parentFamilies) => ParentsOf(families[i]) \subseteq H

\* C10: the hidden set is closed under the cascade rule, and every hidden
\* person is in the direct closure of a collapsed root or satisfies the rule.
C10_HiddenIsCascadeFixedPoint ==
    LET hidden == Hidden
        direct == DirectHidden(TreeData, collapsedBranches)
    IN /\ \A j \in 1..Len(people) :
             CascadeRule(people[j], hidden) => people[j].handle \in hidden
       /\ \A j \in 1..Len(people) :
             people[j].handle \in hidden =>
                 \/ people[j].handle \in direct
                 \/ CascadeRule(people[j], hidden)

\* a person outside the direct closure of the collapsed roots is hidden
\* because a recorded parent, hidden itself, is
C10_Witness ==
    /\ collapsedBranches # {}
    /\ \E j \in 1..Len(people) :
          /\ people[j].handle \in Hidden \ DirectHidden(TreeData, collapsedBranches)
          /\ \E i \in 1..Len(families) :
                /\ people[j].handle \in Range(families[i].children)
                /\ ParentsOf(families[i]) # {}
                /\ ParentsOf(families[i]) \subseteq DirectHidden(TreeData, collapsedBranches)

\* the branch of r: everybody below r, and the partners of the people below r
InBranchOf(r) ==
    Below({r}) \cup
    UNION { IF ParentsOf(families[i]) \cap Below({r}) # {}
            THEN ParentsOf(families[i]) ELSE {}
            : i \in 1..Len(families) }

\* the collapsed roots that are in no other collapsed root's branch
TopCollapsed ==
    { r \in collapsedBranches :
        \A r2 \in collapsedBranches \ {r} : r \notin InBranchOf(r2) }

\* C11: a collapsed root is not hidden: it stays visible and only its branch
\* is hidden, also when both partners of a couple are collapsed.  Stated for
\* the collapsed roots that are in no other collapsed root's branch (a
\* collapsed root inside a collapsed branch is hidden with that branch).
C11_CollapsedRootVisible ==
    \A r \in TopCollapsed : r \notin Hidden

Connections == out.layout.connections

\* C12: every segment of the connections of computeLayout, couple and
\* parent-child, is horizontal or vertical.
C12_SegmentsAxisAligned ==
    LaidOut =>
        \A i \in 1..Len(Connections) :
            \/ Connections[i].fromX = Connections[i].toX
            \/ Connections[i].fromY = Connections[i].toY

\* the x of the card centres of the returned nodes
Centres == { CenterX(Nodes[i]) : i \in 1..Len(Nodes) }

\* C13: the least x over the nodes computeLayout returns is 0, and the
\* connections and the couples are those of the returned (shifted) nodes: a
\* couple segment runs from the right edge of one returned card to the left
\* edge of another at half card height, the ends of every parent-child
\* segment are on the centre columns of returned cards, and midX of a couple
\* is the middle between its two returned cards.
C13_MinXZeroAndLinesShifted ==
    (LaidOut /\ Len(people) > 0) =>
        /\ SetMin({ Nodes[i].x : i \in 1..Len(Nodes) }) = 0
        /\ \A i \in 1..Len(Connections) :
              LET c == Connections[i] IN
              IF c.type = "couple"
              THEN \E m, n \in 1..Len(Nodes) :
                      /\ c.fromX = Nodes[m].x + CW /\ c.fromY = Nodes[m].y + Half(CH)
                      /\ c.toX = Nodes[n].x /\ c.toY = Nodes[n].y + Half(CH)
              ELSE { c.fromX, c.toX } \subseteq Centres
        /\ \A i \in 1..Len(out.layout.couples) :
              LET c == out.layout.couples[i] IN
              2 * c.midX = NodeOf(c.fatherPos).x + CW + NodeOf(c.motherPos).x

\* the shift acted: before it no card was at x = 0, and the layout has couple
\* and parent-child segments
C13_Witness ==
    /\ LaidOut
    /\ out.layout.minX > 0
    /\ \E i, j \in 1..Len(Connections) :
          Connections[i].type = "couple" /\ Connections[j].type = "parent-child"

Orphans == out.layout.orphans

\* C14: every person no root subtree reached is placed at generation 0
\* (y = 0), right of every card a subtree placed, and these people stand left
\* to right in people order, CARD_W + H_SPACE apart.
C14_OrphansOnTopRowToTheRight ==
    LaidOut =>
        /\ \A k \in 1..Len(Orphans) :
              /\ NodeOf(Orphans[k]).y = 0 /\ NodeOf(Orphans[k]).generation = 0
              /\ \A i \in 1..Len(Nodes) :
                    Nodes[i].handle \notin Range(Orphans) =>
                        NodeOf(Orphans[k]).x >= Nodes[i].x + CW
        /\ \A k \in 1..(Len(Orphans) - 1) :
              NodeOf(Orphans[k + 1]).x = NodeOf(Orphans[k]).x + CW + HS
        /\ Orphans = SelectSeq([ j \in 1..Len(people) |-> people[j].handle ],
                               LAMBDA h : h \in Range(Orphans))


\* C14, amended: every person no root subtree reached is placed on the row
\* of the generation assignGenerations gave it, right of every card a subtree
\* placed, and these people stand left to right in people order, CARD_W +
\* H_SPACE apart.
C14_OrphansOnOwnRowToTheRight ==
    LaidOut =>
        LET gens == AssignGenerations(TreeData) IN
        /\ \A k \in 1..Len(Orphans) :
              /\ NodeOf(Orphans[k]).generation = gens[Orphans[k]]
              /\ NodeOf(Orphans[k]).y = gens[Orphans[k]] * (CH + VS)
              /\ \A i \in 1..Len(Nodes) :
                    Nodes[i].handle \notin Range(Orphans) =>
                        NodeOf(Orphans[k]).x >= Nodes[i].x + CW
        /\ \A k \in 1..(Len(Orphans) - 1) :
              NodeOf(Orphans[k + 1]).x = NodeOf(Orphans[k]).x + CW + HS
        /\ Orphans = SelectSeq([ j \in 1..Len(people) |-> people[j].handle ],
                               LAMBDA h : h \in Range(Orphans))

\* root subtrees placed cards, and two people were left to the orphan loop:
\* one of generation 0 and one of a deeper generation
C14_Witness ==
    /\ LaidOut
    /\ Len(Orphans) < Len(Nodes)
    /\ \E a, b \in Range(Orphans) :
          NodeOf(a).generation = 0 /\ NodeOf(b).generation >= 1

\* the units whose father and mother are both people and both list the unit
\* in their families
CoupleUnits ==
    { i \in 1..Len(families) :
        /\ ParentsOf(families[i]) \subseteq Handles(TreeData)
        /\ families[i].fatherHandle # 0 /\ families[i].motherHandle # 0
        /\ \A q \in ParentsOf(families[i]) :
              families[i].handle \in Range(PersonOf(TreeData, q).families) }

\* C15: the father and the mother of a unit have the same generation.
C15_SpousesShareGeneration ==
    out.op = "gens" =>
        \A i \in CoupleUnits :
            Gens[families[i].fatherHandle] = Gens[families[i].motherHandle]

\* a couple below the top row one of whom has no recorded parents, and a
\* couple of two people who both have recorded parents
C15_Witness ==
    /\ out.op = "gens"
    /\ \E i \in CoupleUnits :
          /\ Gens[families[i].fatherHandle] >= 1
          /\ ParentsOf(families[i]) \cap Roots # {}
    /\ \E i \in CoupleUnits :
          /\ Gens[families[i].fatherHandle] >= 1
          /\ ParentsOf(families[i]) \cap Roots = {}

\* C16: the summary of a collapsed root counts, as totalDescendants, the
\* people in the root's direct closure (getDescendantHandles): its partners,
\* its descendants and the partners of its descendants.
C16_SummaryCountsClosure ==
    \A h \in collapsedBranches :
        Summaries[h].totalDescendants
            = Cardinality(GetDescendantHandles(TreeData, h) \cap Handles(TreeData))

\* h and everybody below h, read off the family units
DescendantsOf(h) == {h} \cup Below({h})

\* the parents of the units in which somebody of S is a parent
CoParentsOf(S) ==
    UNION { IF ParentsOf(families[i]) \cap S # {}
            THEN ParentsOf(families[i]) ELSE {}
            : i \in 1..Len(families) }

\* C17: filterDescendants(h), for a person h, keeps h, every person below h
\* and both parents of every unit of h and of the people below h.
C17_DescendantsClosed ==
    (out.op = "descendants" /\ out.handle \in Handles(TreeData)) =>
        (DescendantsOf(out.handle) \cup CoParentsOf(DescendantsOf(out.handle)))
            \cap Handles(TreeData)
        \subseteq { out.first.people[j].handle : j \in 1..Len(out.first.people) }

\* the fathers and mothers of the units the people of S list as parent
\* families
ParentsVia(S) ==
    UNION { IF \E j \in 1..Len(people) :
                  /\ people[j].handle \in S
                  /\ families[i].handle \in Range(people[j].parentFamilies)
            THEN ParentsOf(families[i]) ELSE {}
            : i \in 1..Len(families) }

RECURSIVE AncWithin(_, _)
AncWithin(S, n) == IF n = 0 THEN S ELSE AncWithin(S \cup ParentsVia(S), n - 1)

\* h and the people reached from h through parentFamilies, father and mother
AncestorsOf(h) == AncWithin({h}, NB) \cap Handles(TreeData)

\* C18: filterAncestors(h), for a person h, keeps exactly h and the people
\* reached from h by following parentFamilies to father and mother, and
\* exactly the units whose father or mother is one of them.
C18_AncestorsExact ==
    (out.op = "ancestors" /\ out.handle \in Handles(TreeData)) =>
        LET anc == AncestorsOf(out.handle) IN
        /\ out.first.people = SelectSeq(people, LAMBDA p : p.handle \in anc)
        /\ out.first.families
              = SelectSeq(families, LAMBDA f : ParentsOf(f) \cap anc # {})

\* h has a grandparent, both parents of one of its parent units are on
\* record, and a kept unit has a parent who is a person and is not kept
C18_Witness ==
    /\ out.op = "ancestors" /\ out.handle \in Handles(TreeData)
    /\ AncWithin({out.handle}, 2) # AncWithin({out.handle}, 1)
    /\ \E i \in 1..Len(families) :
          /\ families[i].handle \in Range(PersonOf(TreeData, out.handle).parentFamilies)
          /\ Cardinality(ParentsOf(families[i]) \cap Handles(TreeData)) = 2
    /\ \E i \in 1..Len(out.first.families) :
          (ParentsOf(out.first.families[i]) \cap Handles(TreeData))
              \ AncestorsOf(out.handle) # {}

\* C19: a toggleCollapse(r) step adds r to the collapsed set when r is not in
\* it; when r is in it the step takes r out and puts in the direct children
\* of r that are parents of a unit with a child; no other handle enters or
\* leaves the set.
C19_ToggleStep ==
    [][ \A r \in Handles(TreeData) :
          ToggleCollapse(r) =>
            /\ collapsedBranches' =
                  IF r \in collapsedBranches
                  THEN (collapsedBranches \ {r}) \cup KidsWithKids(r)
                  ELSE collapsedBranches \cup {r}
            /\ \A h \in AllHandles \ ({r} \cup KidsOf(families, r)) :
                  (h \in collapsedBranches') = (h \in collapsedBranches) ]_vars

\* r was collapsed next to other collapsed roots and expanded again: its
\* children with children came in, the others stayed
C19_Witness ==
    /\ ToggledTwice
    /\ last.base \ KidsOf(families, last.handle) # {}
    /\ KidsWithKids(last.handle) \ last.base # {}
    /\ last.base \cup KidsWithKids(last.handle) = collapsedBranches

\* C20: assignGenerations comes to its end, and the map it returns has a
\* generation of 0 or more for every person.
C20_TerminatesNonNegative ==
    <>( /\ out.op = "gens"
        /\ \A h \in Handles(TreeData) : h \in DOMAIN out.gens /\ out.gens[h] >= 0 )

\* the run ended on data without a cycle in which a person was reached twice,
\* the second time at a smaller depth
C20_Witness ==
    /\ out.op = "gens"
    /\ Acyclic(families)
    /\ out.lowered

\* C21: in full view, whatever has been collapsed and expanded, the laid-out
\* nodes are the people that are not hidden, each of them once.
C21_LaidOutAreTheVisible ==
    LET nodes == PageLayout.nodes IN
    /\ { nodes[i].handle : i \in 1..Len(nodes) } = Handles(TreeData) \ Hidden
    /\ \A i, j \in 1..Len(nodes) : nodes[i].handle = nodes[j].handle => i = j

\* somebody is hidden, and a collapsed parent and a person of a later
\* generation are laid out
C21_Witness ==
    LET nodes == PageLayout.nodes IN
    /\ Hidden # {}
    /\ \E i \in 1..Len(nodes) : nodes[i].handle \in collapsedBranches
    /\ \E i \in 1..Len(nodes) : nodes[i].generation > 0

\* C22: the existing people getDescendantHandles(r) returns are the
\* filteredPeople of filterDescendants(r) other than r.
C22_HiddenClosureIsDescendantFilter ==
    out.op = "descendants" =>
        GetDescendantHandles(TreeData, out.handle) \cap Handles(TreeData)
            = Handles(out.first) \ {out.handle}

\* the parent computeLayout draws the unit's child lines from, when that
\* parent is of the bloodline and placed (0 otherwise)
BloodlineParent(fam) ==
    IF fam.fatherHandle # 0 /\ IsPlaced(fam.fatherHandle)
       /\ IsPatri(TreeData, fam.fatherHandle) THEN fam.fatherHandle
    ELSE IF fam.motherHandle # 0 /\ IsPlaced(fam.motherHandle)
            /\ IsPatri(TreeData, fam.motherHandle) THEN fam.motherHandle
    ELSE 0

\* the parent-child segments computeLayout emits for the unit
UnitLines(fam) == ChildLines(fam, Nodes, NodeIndex(Nodes, BloodlineParent(fam)))

\* the unit's segments are a stub from the parent's bottom centre, a bus
\* halfway down to the children from the leftmost to the rightmost of the
\* parent's and the children's centres, and a drop to each child's card top
StubBusDrops(fam, L) ==
    LET parent == NodeOf(BloodlineParent(fam))
        kids   == Range(PlacedChildren(fam))
        busY   == L[2].fromY
        xs     == { CenterX(NodeOf(c)) : c \in kids }
    IN
    /\ Len(L) = Cardinality(kids) + 2
    /\ L[1] = Conn(CenterX(parent), parent.y + CH, CenterX(parent), busY, "parent-child")
    /\ L[2] = Conn(Min2(CenterX(parent), SetMin(xs)), busY,
                   Max2(CenterX(parent), SetMax(xs)), busY, "parent-child")
    /\ \A c \in kids :
          /\ 2 * busY = parent.y + CH + NodeOf(c).y
          /\ Cardinality({ k \in 3..Len(L) :
                L[k] = Conn(CenterX(NodeOf(c)), busY, CenterX(NodeOf(c)), NodeOf(c).y,
                            "parent-child") }) = 1

\* C23: a unit with a placed bloodline parent and N >= 2 placed children gets
\* N + 2 parent-child segments: the stub, the bus and a drop per child that
\* ends at that child's card top.
C23_StubBusAndDrops ==
    LaidOut =>
        \A i \in 1..Len(families) :
            (BloodlineParent(families[i]) # 0
               /\ Len(PlacedChildren(families[i])) >= 2)
            => StubBusDrops(families[i], UnitLines(families[i]))

\* the levels both contours have
SharedDepths == 1..Min2(Len(out.merged.right), Len(out.child.left))

\* C24: minSeparation(merged, child) is the least s with s >= H_SPACE and
\* s + child.left[d] >= merged.right[d] + H_SPACE at every level d both
\* contours have; mergeContours(merged, child, s) has at each level the least
\* of the lefts and the greatest of the rights, the child's moved by s, so at
\* the levels of merged the left never grows and the right never shrinks.
C24_LeastSeparationAndMerge ==
    out.op = "packed" =>
        LET m == out.merged
            c == out.child
            s == out.sep
            r == out.result
            n == Max2(Len(m.left), Len(c.left))
        IN
        /\ s >= HS
        /\ \A d \in SharedDepths : s + c.left[d] >= m.right[d] + HS
        /\ s = HS \/ \E d \in SharedDepths : s + c.left[d] = m.right[d] + HS
        /\ Len(r.left) = n /\ Len(r.right) = n
        /\ \A d \in 1..n :
              /\ r.left[d] = IF d > Len(c.left) THEN m.left[d]
                             ELSE IF d > Len(m.left) THEN c.left[d] + s
                             ELSE Min2(m.left[d], c.left[d] + s)
              /\ r.right[d] = IF d > Len(c.right) THEN m.right[d]
                              ELSE IF d > Len(m.right) THEN c.right[d] + s
                              ELSE Max2(m.right[d], c.right[d] + s)
        /\ \A d \in 1..Len(m.left) : r.left[d] <= m.left[d] /\ r.right[d] >= m.right[d]

\* a deeper merged contour and a shallower child that has to stand further
\* off than H_SPACE and pushes the right edge of a level out
C24_Witness ==
    /\ out.op = "packed"
    /\ Len(out.merged.left) > Len(out.child.left)
    /\ out.sep > HS
    /\ \E d \in 1..Len(out.result.right) : out.result.right[d] > out.merged.right[d]

\* C25: every node carries the generation assignGenerations gave the person
\* and stands on the row of that generation.
C25_NodeOnRowOfItsGeneration ==
    LaidOut =>
        \A i \in 1..Len(Nodes) :
            /\ Nodes[i].generation = AssignGenerations(TreeData)[Nodes[i].handle]
            /\ Nodes[i].y = Nodes[i].generation * (CH + VS)

\* the data with the people, the families or both in the opposite order
Reordered ==
    { [ people   |-> IF a THEN Reverse(people) ELSE people,
        families |-> IF b THEN Reverse(families) ELSE families ] : a, b \in BOOLEAN }

\* C26: assignGenerations gives every person the same generation whatever the
\* order of the people and of the families: here, with either collection
\* reversed.
C26_OrderIndependent ==
    out.op = "gens" => \A D \in Reordered : AssignGenerations(D) = out.gens

\* C27: with nothing collapsed nobody is hidden.
C27_NothingCollapsedNothingHidden ==
    collapsedBranches = {} => Hidden = {}

\* C28: when only collapsed roots are toggled, the toggling comes to an end
\* with nothing collapsed.
C28_RevealTerminates == <>(collapsedBranches = {})

\* a root was expanded and replaced by children of its own, none of them
\* collapsed before
C28_Witness ==
    /\ last.op = "expanded"
    /\ KidsWithKids(last.handle) # {}
    /\ KidsWithKids(last.handle) \cap last.base = {}
    /\ collapsedBranches = (last.base \ {last.handle}) \cup KidsWithKids(last.handle)

\* C29: no two cards overlap: two nodes on one row are at least a card's
\* width apart.
C29_CardsDoNotOverlap ==
    LaidOut =>
        \A i, j \in 1..Len(Nodes) :
            (i # j /\ Nodes[i].y = Nodes[j].y)
            => \/ Nodes[i].x - Nodes[j].x >= CW
               \/ Nodes[j].x - Nodes[i].x >= CW

\* several root subtrees, people the orphan loop added, a child that was
\* reached a second time and skipped, and cards side by side on a row
C29_Witness ==
    /\ LaidOut
    /\ Len(out.layout.roots) >= 2
    /\ Len(Orphans) >= 1
    /\ \E sp \in out.layout.spans : sp.lo > sp.hi
    /\ \E i, j \in 1..Len(Nodes) : i # j /\ Nodes[i].y = Nodes[j].y /\ Nodes[i].y > 0

\* the greatest generation of a person in people, -1 when there are none
TopGeneration(D, gens) ==
    SetMax({ gens[h] : h \in Handles(D) } \cup { 0 - 1 })

\* C30: the generations field is 1 + the greatest generation of a person in
\* people, 0 when there are no people; handles that are only named by units
\* do not count.
C30_GenerationsCountsPeople ==
    LaidOut =>
        out.layout.generations
            = TopGeneration(TreeData, AssignGenerations(TreeData)) + 1

=============================================================================
